---------------------------- MODULE Spec2Model ----------------------------
(***************************************************************************)
(* Natural-language-to-SQL pipeline of the legal-prompt application:       *)
(* Validator, sanitizer, column-identifier Normalizer, Query Generator     *)
(* and Query Executor (getLegalPrompts) with lazy table creation.          *)
(*                                                                         *)
(* The repository holds three revisions of the server actions:             *)
(*   "app"  : src/app/actions.ts       (the file the page imports)         *)
(*   "p002" : src/unnamed/part_002     (the revision with validateQuery,   *)
(*            sanitizeSQL, the error map and the query timeout)            *)
(*   "p001" : src/unnamed/part_001     (the first revision: no Normalizer, *)
(*            CREATE TABLE and INSERT sent as one statement)               *)
(* A behaviour runs one revision, chosen in Init.                          *)
(*                                                                         *)
(* A string is a sequence of one-character strings, so that toLowerCase,   *)
(* trim, startsWith, includes and replace are computed on characters.      *)
(***************************************************************************)
EXTENDS Naturals, Integers, Sequences, FiniteSets, TLC

----------------------------------------------------------------------------
(* JavaScript string primitives *)

UpperSeq == <<"A","B","C","D","E","F","G","H","I","J","K","L","M",
              "N","O","P","Q","R","S","T","U","V","W","X","Y","Z">>
LowerSeq == <<"a","b","c","d","e","f","g","h","i","j","k","l","m",
              "n","o","p","q","r","s","t","u","v","w","x","y","z">>
Digits == {"0","1","2","3","4","5","6","7","8","9"}

Range(f) == {f[i] : i \in DOMAIN f}

\* F applied to the value of x: the argument is evaluated once, as JavaScript
\* evaluates the argument of a call before the call
Bind(x, F(_)) == CHOOSE r \in {F(v) : v \in {x}} : TRUE

\* the least element of a set of positions, 0 when the set is empty
First(set) ==
    Bind(set, LAMBDA S : IF S = {} THEN 0 ELSE CHOOSE j \in S : \A k \in S : j <= k)

\* the greatest element of a set of positions, 0 when the set is empty
Last(set) ==
    Bind(set, LAMBDA S : IF S = {} THEN 0 ELSE CHOOSE j \in S : \A k \in S : j >= k)

\* String.prototype.toLowerCase, one character
LowerCh(ch) ==
    IF \E i \in DOMAIN UpperSeq : UpperSeq[i] = ch
    THEN LowerSeq[CHOOSE i \in DOMAIN UpperSeq : UpperSeq[i] = ch]
    ELSE ch

toLowerCase(str) == Bind(str, LAMBDA s : [i \in 1..Len(s) |-> LowerCh(s[i])])

IsWhite(ch) == ch \in {" ", "\n", "\t"}

\* \w of a JavaScript regular expression
IsWordCh(ch) == ch \in Range(UpperSeq) \cup Range(LowerSeq) \cup Digits \cup {"_"}

IsQuoteCh(ch) == ch \in {"\"", "'"}

\* the positions of s that hold a character other than white space
black(s) == {i \in 1..Len(s) : ~IsWhite(s[i])}

trim(str) ==
    Bind(str, LAMBDA s : IF black(s) = {} THEN <<>>
                         ELSE SubSeq(s, First(black(s)), Last(black(s))))

startsWith(s, p) == Len(s) >= Len(p) /\ SubSeq(s, 1, Len(p)) = p

\* p occurs in s at position i
OccursAt(s, p, i) ==
    /\ i >= 1
    /\ i + Len(p) - 1 <= Len(s)
    /\ \A k \in 1..Len(p) : s[i + k - 1] = p[k]

includes(s, p) == \E i \in 1..(Len(s) + 1) : OccursAt(s, p, i)

\* s.replace(/p/g, r) for a literal, non-empty p, from position i on: the
\* leftmost match j, what precedes it unchanged, then on from the end of the match
RECURSIVE replaceFrom(_, _, _, _)
replaceFrom(s, p, r, i) ==
    IF i > Len(s) THEN <<>>
    ELSE Bind(First({j \in i..Len(s) : OccursAt(s, p, j)}), LAMBDA j :
             IF j = 0 THEN SubSeq(s, i, Len(s))
             ELSE SubSeq(s, i, j - 1) \o r \o replaceFrom(s, p, r, j + Len(p)))

replaceAll(str, p, r) == Bind(str, LAMBDA s : replaceFrom(s, p, r, 1))

----------------------------------------------------------------------------
(* String constants of the source *)

Q == "\""

sSelect   == <<"s","e","l","e","c","t">>
sDrop     == <<"d","r","o","p">>
sDelete   == <<"d","e","l","e","t","e">>
sInsert   == <<"i","n","s","e","r","t">>
sUpdate   == <<"u","p","d","a","t","e">>
sTruncate == <<"t","r","u","n","c","a","t","e">>
sAlter    == <<"a","l","t","e","r">>
sUnion    == <<"u","n","i","o","n">>
sExec     == <<"e","x","e","c">>
sXp       == <<"x","p","_">>
sWaitfor  == <<"w","a","i","t","f","o","r">>
sDashes   == <<"-","-">>
sOpenComment  == <<"/","*">>
sCloseComment == <<"*","/">>
sCreatedAt     == <<"c","r","e","a","t","e","d","A","t">>
sSystemMessage == <<"s","y","s","t","e","m","M","e","s","s","a","g","e">>

SENSITIVE_COLUMNS == <<sCreatedAt, sSystemMessage>>

FORBIDDEN_KEYWORDS == <<sDrop, sDelete, sInsert, sUpdate, sTruncate, sAlter>>

\* the `suspicious` list of validateQuery
suspicious == <<sDashes, sOpenComment, sUnion, sExec, sXp, sWaitfor>>

\* the keywords the inline validation of src/app/actions.ts looks for
AppKeywords == <<sDrop, sDelete, sInsert>>

----------------------------------------------------------------------------
(* sanitizeSQL, src/unnamed/part_002 *)

\* position of the nearest "*/" at or after position j of s, 0 when there is none
closeFrom(s, j) == First({c \in j..Len(s) : OccursAt(s, sCloseComment, c)})

\* .replace(/\/\*[\s\S]*?\*\//g, ''), from position i on: the leftmost "/*"
\* that has a "*/" after it, up to the nearest such "*/"
RECURSIVE uncommentFrom(_, _)
uncommentFrom(s, i) ==
    IF i > Len(s) THEN <<>>
    ELSE Bind(First({j \in i..Len(s) : /\ OccursAt(s, sOpenComment, j)
                                        /\ closeFrom(s, j + 2) # 0}),
              LAMBDA j : IF j = 0 THEN SubSeq(s, i, Len(s))
                         ELSE SubSeq(s, i, j - 1)
                                  \o uncommentFrom(s, closeFrom(s, j + 2) + 2))

removeBlockComments(str) == Bind(str, LAMBDA s : uncommentFrom(s, 1))

sanitizeSQL(query) ==
    trim(removeBlockComments(replaceAll(replaceAll(query, sDashes, <<>>), <<";">>, <<>>)))

----------------------------------------------------------------------------
(* fixColumnQuoting, both revisions *)

\* length of the run of double quotes that starts at position i
quoteRun(s, i) ==
    IF i > Len(s) THEN 0
    ELSE Bind(First({j \in i..Len(s) : s[j] # Q}),
              LAMBDA j : IF j = 0 THEN Len(s) + 1 - i ELSE j - i)

\* length of the run of characters other than a double quote that starts at i
plainRun(s, i) ==
    IF i > Len(s) THEN 0
    ELSE Bind(First({j \in i..Len(s) : s[j] = Q}),
              LAMBDA j : IF j = 0 THEN Len(s) + 1 - i ELSE j - i)

\* .replace(/"{2,}/g, '"'), from position i on: the leftmost run of two or
\* more quotes becomes one quote
RECURSIVE collapseFrom(_, _)
collapseFrom(s, i) ==
    IF i > Len(s) THEN <<>>
    ELSE Bind(First({j \in i..Len(s) : quoteRun(s, j) >= 2}), LAMBDA j :
             IF j = 0 THEN SubSeq(s, i, Len(s))
             ELSE SubSeq(s, i, j - 1) \o <<Q>> \o collapseFrom(s, j + quoteRun(s, j)))

collapseQuotes(str) == Bind(str, LAMBDA s : collapseFrom(s, 1))

\* /""+([^"]+)""+/ matches at position j: a run of two or more quotes, one or
\* more other characters, a run of two or more quotes
wrappedAt(s, j) ==
    Bind(quoteRun(s, j), LAMBDA k :
    Bind(plainRun(s, j + k), LAMBDA t :
        k >= 2 /\ t >= 1 /\ quoteRun(s, j + k + t) >= 2))

\* .replace(/""+([^"]+)""+/g, '"$1"'), from position i on
RECURSIVE unwrapFrom(_, _)
unwrapFrom(s, i) ==
    IF i > Len(s) THEN <<>>
    ELSE Bind(First({j \in i..Len(s) : wrappedAt(s, j)}), LAMBDA j :
             IF j = 0 THEN SubSeq(s, i, Len(s))
             ELSE Bind(quoteRun(s, j), LAMBDA k :
                  Bind(plainRun(s, j + k), LAMBDA t :
                      SubSeq(s, i, j - 1)
                          \o <<Q>> \o SubSeq(s, j + k, j + k + t - 1) \o <<Q>>
                          \o unwrapFrom(s, j + k + t + quoteRun(s, j + k + t)))))

unwrapDoubled(str) == Bind(str, LAMBDA s : unwrapFrom(s, 1))

\* columnMatchAt without the lookbehind and the lookahead: \bcolumn\b
columnMatchAtAnyNeighbour(s, column, i, ci) ==
    LET n == Len(column) IN
    /\ i + n - 1 <= Len(s)
    /\ \A k \in 1..n : IF ci THEN LowerCh(s[i + k - 1]) = LowerCh(column[k])
                             ELSE s[i + k - 1] = column[k]
    /\ i = 1 \/ ~IsWordCh(s[i - 1])
    /\ i + n > Len(s) \/ ~IsWordCh(s[i + n])

\* (?<!["'])\bcolumn\b(?!["']) matches at position i; ci is the regex flag i
columnMatchAt(s, column, i, ci) ==
    LET n == Len(column) IN
    /\ i + n - 1 <= Len(s)
    /\ \A k \in 1..n : IF ci THEN LowerCh(s[i + k - 1]) = LowerCh(column[k])
                             ELSE s[i + k - 1] = column[k]
    /\ i = 1 \/ (~IsQuoteCh(s[i - 1]) /\ ~IsWordCh(s[i - 1]))
    /\ i + n > Len(s) \/ (~IsQuoteCh(s[i + n]) /\ ~IsWordCh(s[i + n]))

\* fixedQuery.replace(regex, `"${column}"`), from position i on
RECURSIVE quoteFrom(_, _, _, _)
quoteFrom(s, column, i, ci) ==
    IF i > Len(s) THEN <<>>
    ELSE Bind(First({j \in i..Len(s) : columnMatchAt(s, column, j, ci)}), LAMBDA j :
             IF j = 0 THEN SubSeq(s, i, Len(s))
             ELSE SubSeq(s, i, j - 1) \o <<Q>> \o column \o <<Q>>
                      \o quoteFrom(s, column, j + Len(column), ci))

quoteColumn(str, column, ci) == Bind(str, LAMBDA s : quoteFrom(s, column, 1, ci))

\* SENSITIVE_COLUMNS.forEach: each column rewrites the result of the one before
RECURSIVE quoteColumns(_, _, _, _)
quoteColumns(s, columns, k, ci) ==
    IF k > Len(columns) THEN s
    ELSE quoteColumns(quoteColumn(s, columns[k], ci), columns, k + 1, ci)

\* src/unnamed/part_002
fixColumnQuoting(query) ==
    quoteColumns(collapseQuotes(query), SENSITIVE_COLUMNS, 1, TRUE)

\* src/app/actions.ts
fixColumnQuotingApp(query) ==
    quoteColumns(unwrapDoubled(query), SENSITIVE_COLUMNS, 1, FALSE)

----------------------------------------------------------------------------
(* The Validator *)

NoError == [text |-> "", keyword |-> <<>>]
OnlySelect == [text |-> "Only SELECT queries are allowed", keyword |-> <<>>]
ForbiddenKeyword(kw) == [text |-> "Query contains forbidden keyword", keyword |-> kw]
SuspiciousPatterns == [text |-> "Query contains suspicious patterns", keyword |-> <<>>]

\* index of the first entry of list that s includes, 0 when there is none
firstIncluded(s, list) ==
    IF \E k \in DOMAIN list : includes(s, list[k])
    THEN CHOOSE k \in DOMAIN list :
             /\ includes(s, list[k])
             /\ \A m \in 1..(k - 1) : ~includes(s, list[m])
    ELSE 0

\* validateQuery with includes('select') in place of startsWith('select')
validateQuerySelectAnywhere(query) ==
    Bind(trim(toLowerCase(query)), LAMBDA sanitized :
    Bind(firstIncluded(sanitized, FORBIDDEN_KEYWORDS), LAMBDA kw :
        IF ~includes(sanitized, sSelect)
        THEN [isValid |-> FALSE, error |-> OnlySelect]
        ELSE IF kw # 0
        THEN [isValid |-> FALSE, error |-> ForbiddenKeyword(FORBIDDEN_KEYWORDS[kw])]
        ELSE IF firstIncluded(sanitized, suspicious) # 0
        THEN [isValid |-> FALSE, error |-> SuspiciousPatterns]
        ELSE [isValid |-> TRUE, error |-> NoError]))

\* validateQuery with the suspicious patterns looked for before the keywords
validateQuerySuspiciousFirst(query) ==
    Bind(trim(toLowerCase(query)), LAMBDA sanitized :
    Bind(firstIncluded(sanitized, FORBIDDEN_KEYWORDS), LAMBDA kw :
        IF ~startsWith(sanitized, sSelect)
        THEN [isValid |-> FALSE, error |-> OnlySelect]
        ELSE IF firstIncluded(sanitized, suspicious) # 0
        THEN [isValid |-> FALSE, error |-> SuspiciousPatterns]
        ELSE IF kw # 0
        THEN [isValid |-> FALSE, error |-> ForbiddenKeyword(FORBIDDEN_KEYWORDS[kw])]
        ELSE [isValid |-> TRUE, error |-> NoError]))

\* validateQuery, src/unnamed/part_002
validateQuery(query) ==
    Bind(trim(toLowerCase(query)), LAMBDA sanitized :
    Bind(firstIncluded(sanitized, FORBIDDEN_KEYWORDS), LAMBDA kw :
        IF ~startsWith(sanitized, sSelect)
        THEN [isValid |-> FALSE, error |-> OnlySelect]
        ELSE IF kw # 0
        THEN [isValid |-> FALSE, error |-> ForbiddenKeyword(FORBIDDEN_KEYWORDS[kw])]
        ELSE IF firstIncluded(sanitized, suspicious) # 0
        THEN [isValid |-> FALSE, error |-> SuspiciousPatterns]
        ELSE [isValid |-> TRUE, error |-> NoError]))

\* the inline queryValidation of getLegalPrompts, src/app/actions.ts
queryValidation(query) ==
    Bind(toLowerCase(trim(query)), LAMBDA q :
        IF ~startsWith(q, sSelect) \/ firstIncluded(q, AppKeywords) # 0
        THEN [isValid |-> FALSE, error |-> OnlySelect]
        ELSE [isValid |-> TRUE, error |-> NoError])

----------------------------------------------------------------------------
(* Errors and results *)

Versions == {"app", "p002", "p001"}

\* what a database statement can fail with: an engine error code ("" for an
\* error that carries no code, such as a dropped connection) and whether the
\* engine attached a detail
DbError(code, detail) == [code |-> code, detail |-> detail]

UndefinedTable == DbError("42P01", FALSE)
DuplicateTable == DbError("42P07", FALSE)

\* failures of any statement that do not depend on the statement's text
TransientErrors == {DbError("XX000", FALSE), DbError("", FALSE)}

\* failures of the user's query
QueryErrors ==
    TransientErrors \cup {UndefinedTable}
        \cup {DbError(code, d) : code \in {"42601", "57014"}, d \in BOOLEAN}

\* what a call ends with
NoOutcome == [kind |-> "none", text |-> "", code |-> "", detail |-> FALSE, rows |-> 0]
Rows(n) == [kind |-> "rows", text |-> "", code |-> "", detail |-> FALSE, rows |-> n]
\* throw new Error(text [+ ": " + detail])
ThrownError(text, detail) ==
    [kind |-> "Error", text |-> text, code |-> "", detail |-> detail, rows |-> 0]
\* the engine's (or driver's) own error object, thrown on unchanged
RawError(e) ==
    [kind |-> "raw", text |-> "", code |-> e.code, detail |-> e.detail, rows |-> 0]
\* throw null
ThrownNull == [kind |-> "null", text |-> "", code |-> "", detail |-> FALSE, rows |-> 0]

\* isPostgresError: the error carries a string code
isPostgresError(e) == e.code # ""

\* errorMap of handlePostgresError, src/unnamed/part_002
errorMap ==
    [c \in {"42601", "42703", "42P01", "23505", "23503", "57014", "53400",
            "42883", "42P02", "23502", "22001", "22003", "22007", "22P02"} |->
        CASE c = "42601" -> "Invalid SQL syntax. Please check your query."
          [] c = "42703" -> "Invalid column reference. Please verify column names."
          [] c = "42P01" -> "Table does not exist."
          [] c = "23505" -> "Duplicate key violation."
          [] c = "23503" -> "Foreign key violation."
          [] c = "57014" -> "Query cancelled due to timeout."
          [] c = "53400" -> "Out of memory."
          [] c = "42883" -> "Undefined function."
          [] c = "42P02" -> "Undefined parameter."
          [] c = "23502" -> "Not null violation."
          [] c = "22001" -> "String data right truncation."
          [] c = "22003" -> "Numeric value out of range."
          [] c = "22007" -> "Invalid datetime format."
          [] c = "22P02" -> "Invalid text representation."]

UnexpectedDatabaseError == "An unexpected database error occurred"
UnknownDatabaseError == "Unknown database error occurred"

\* handlePostgresError, src/unnamed/part_002: always throws; the value thrown
handlePostgresError(error) ==
    IF ~isPostgresError(error)
    THEN ThrownError(UnknownDatabaseError, FALSE)
    ELSE ThrownError(IF error.code \in DOMAIN errorMap
                     THEN errorMap[error.code]
                     ELSE UnexpectedDatabaseError,
                     error.detail)

\* the switch of handlePostgresError, src/app/actions.ts
errorMapApp ==
    [c \in {"42601", "42703"} |->
        CASE c = "42601" -> "Invalid SQL syntax. Please try rephrasing your request."
          [] c = "42703" -> "Invalid column reference. Please check column names."]

\* handlePostgresError, src/app/actions.ts: throws, or returns null for 42P01
handlePostgresErrorApp(error) ==
    IF isPostgresError(error) /\ error.code \in DOMAIN errorMapApp
    THEN [returns |-> FALSE, thrown |-> ThrownError(errorMapApp[error.code], FALSE)]
    ELSE IF isPostgresError(error) /\ error.code = "42P01"
    THEN [returns |-> TRUE, thrown |-> ThrownNull]
    ELSE [returns |-> FALSE, thrown |-> RawError(error)]

QueryTimedOut == ThrownError("Query timed out. Please simplify your query.", FALSE)

----------------------------------------------------------------------------
(* getLegalPrompts: the Query Executor *)

VARIABLES
    version,         \* the revision of the server actions that is deployed
    pc,              \* where each call of getLegalPrompts stands
    query,           \* the argument of each call
    sanitizedQuery,  \* the local sanitizedQuery of each call
    outcome,         \* what each call returned or threw
    log,             \* the statements each call has handed to sql.query, in order
    db,              \* the database: does legalprompt exist, and its row count
    inflight,        \* calls whose first sql.query(sanitizedQuery) still runs
    timedOut,        \* calls whose first execution outlasted DEFAULT_TIMEOUT
    retryOverdue,    \* calls whose retry has run for longer than DEFAULT_TIMEOUT
    raw,             \* the string handed to the Validator or returned by the service
    service,         \* how the structured-generation call of generateQuery ended
    verdict,         \* the Validator's result for raw
    generated,       \* what generateQuery returned or threw
    step,            \* which function of the pipeline has been applied to raw
    normalized,      \* fixColumnQuoting applied to raw, once and twice
    validated,       \* the string generateQuery handed to validateQuery, if any
    results,         \* generateChartConfig: the number of rows it is called with
    response,        \* generateChartConfig: how generateObject ends, and its object
    serviceCalls,    \* generateChartConfig: how often generateObject was invoked
    chart,           \* generateChartConfig: what it returned or threw
    pageRev,         \* the revision of the page that is rendered
    pagePc,          \* for each submission, the await at which it stands
    input,           \* the page's input state
    queryState,      \* the page's queryState
    loading,         \* the page's loading state
    toasts,          \* the notifications the page has shown, in order
    history,         \* what the submissions so far fetched and returned
    searchParams,    \* getPaginationParams: the query parameters of the request
    pagination       \* getPaginationParams: what it returned

execVars == <<pc, query, sanitizedQuery, outcome, log, db, inflight, timedOut, retryOverdue>>
pipeVars == <<raw, service, verdict, generated, step, normalized, validated>>
chartVars == <<results, response, serviceCalls, chart>>
pageVars == <<pageRev, pagePc, input, queryState, loading, toasts, history>>
pagingVars == <<searchParams, pagination>>
otherVars == <<pipeVars, chartVars, pageVars, pagingVars>>
vars == <<version, execVars, otherVars>>

Callers == {"c1", "c2"}

\* the number of rows of seedQuery
SeedRows == 3

qSelectId   == <<"S","E","L","E","C","T"," ","i","d">>
qSplitDrop  == <<"s","e","l","e","c","t"," ","d","r",";","o","p">>
qUpdate     == <<"s","e","l","e","c","t"," ","1",";","u","p","d","a","t","e">>
qDropTable  == <<"d","r","o","p"," ","t">>

\* the query strings the callers pass
Queries == {qSelectId, qSplitDrop, qUpdate, qDropTable}

\* the validation getLegalPrompts runs first
validation(v, q) == IF v = "p002" THEN validateQuery(q) ELSE queryValidation(q)

\* the text getLegalPrompts hands to sql.query
sanitize(v, q) ==
    CASE v = "p002" -> fixColumnQuoting(sanitizeSQL(q))
      [] v = "app"  -> fixColumnQuotingApp(q)
      [] v = "p001" -> q

\* the catch block of the first execution: go on to create the table, or throw
afterQueryError(v, e) ==
    IF v = "p002"
    THEN [creates |-> isPostgresError(e) /\ e.code = "42P01",
          thrown  |-> handlePostgresError(e)]
    ELSE IF v = "app"
    THEN [creates |-> handlePostgresErrorApp(e).returns,
          thrown  |-> handlePostgresErrorApp(e).thrown]
    ELSE [creates |-> e = UndefinedTable, thrown |-> RawError(e)]

\* a failed CREATE TABLE or INSERT: caught by the inner try (p002), uncaught (app)
afterSetupError(v, e) ==
    IF v = "p002" THEN handlePostgresError(e) ELSE RawError(e)

\* a failed retry: handlePostgresError(retryError) / throw handlePostgresError(...)
afterRetryError(v, e) ==
    CASE v = "p002" -> handlePostgresError(e)
      [] v = "app"  -> handlePostgresErrorApp(e).thrown
      [] v = "p001" -> RawError(e)

\* how the log records a failed statement
ResultOf(e) == IF e.code = "" THEN "failed" ELSE e.code

Entry(stmt, text) == [stmt |-> stmt, text |-> text, result |-> "pending"]

Issue(c, stmt, text) == log' = [log EXCEPT ![c] = Append(@, Entry(stmt, text))]

Settle(c, res) == log' = [log EXCEPT ![c][Len(log[c])].result = res]

SettleAndIssue(c, res, stmt, text) ==
    log' = [log EXCEPT ![c] =
               Append([@ EXCEPT ![Len(@)].result = res], Entry(stmt, text))]

NoVerdict == [isValid |-> FALSE, error |-> NoError]
NoQuery == [kind |-> "none", text |-> <<>>, cause |-> ""]

\* no call of getLegalPrompts has been made, on a database without the table
ExecInit ==
    /\ pc = [c \in Callers |-> "idle"]
    /\ query = [c \in Callers |-> <<>>]
    /\ sanitizedQuery = [c \in Callers |-> <<>>]
    /\ outcome = [c \in Callers |-> NoOutcome]
    /\ log = [c \in Callers |-> <<>>]
    /\ db = [exists |-> FALSE, rows |-> 0]
    /\ inflight = [c \in Callers |-> FALSE]
    /\ timedOut = [c \in Callers |-> FALSE]
    /\ retryOverdue = [c \in Callers |-> FALSE]

\* the pipeline functions are not under test
NoNormalized == [once |-> <<>>, twice |-> <<>>]
NotValidated == [given |-> FALSE, text |-> <<>>]

PipeIdle ==
    /\ raw = <<>>
    /\ service = "none"
    /\ verdict = NoVerdict
    /\ generated = NoQuery
    /\ step = "off"
    /\ normalized = NoNormalized
    /\ validated = NotValidated

\* generateChartConfig has not been called
NoResponse == [ends |-> "none", yKeys |-> <<>>, legend |-> "undefined", colors |-> "undefined"]
NoChart == [kind |-> "none"]

ChartIdle ==
    /\ results = 0
    /\ response = NoResponse
    /\ serviceCalls = 0
    /\ chart = NoChart

\* the page's three useState initial values; nothing was submitted yet
\* <<>> is the empty string of active, the empty arrays and the null chartConfig
EmptyQueryState == [active |-> <<>>, results |-> <<>>, columns |-> <<>>, chartConfig |-> <<>>]
NoHistory == [calls |-> 0, latest |-> 0, fetched |-> <<>>, failedAt |-> "none",
              returned |-> "none", lastGood |-> <<>>, toastsBefore |-> 0]

PageStart ==
    /\ pagePc = <<>>
    /\ input = [value |-> <<>>, submitted |-> FALSE]
    /\ queryState = EmptyQueryState
    /\ loading = [status |-> FALSE, step |-> 1, error |-> "undefined"]
    /\ toasts = <<>>
    /\ history = NoHistory

PageIdle ==
    /\ pageRev = "page"
    /\ PageStart

\* getPaginationParams has not been called
Absent == [present |-> FALSE, text |-> <<>>]
NoSearchParams == [page |-> Absent, limit |-> Absent, category |-> Absent]
NoPagination == [kind |-> "none"]

PagingIdle ==
    /\ searchParams = NoSearchParams
    /\ pagination = NoPagination

Init ==
    /\ version \in Versions
    /\ ExecInit
    /\ PipeIdle
    /\ ChartIdle
    /\ PageIdle
    /\ PagingIdle

\* a client calls the server action
Call(c, q) ==
    /\ pc[c] = "idle"
    /\ pc' = [pc EXCEPT ![c] = "Validating"]
    /\ query' = [query EXCEPT ![c] = q]
    /\ UNCHANGED <<version, sanitizedQuery, outcome, log, db, inflight, timedOut, retryOverdue>>
    /\ UNCHANGED otherVars

\* Validate with the statement sent before the verdict is looked at: a rejected
\* query reaches the engine and the call fails afterwards
ValidateAfterSending(c) ==
    /\ pc[c] = "Validating"
    /\ \E checked \in {validation(version, query[c])} :
         /\ \E text \in {sanitize(version, query[c])} :
              /\ sanitizedQuery' = [sanitizedQuery EXCEPT ![c] = text]
              /\ Issue(c, "query", text)
         /\ IF checked.isValid
            THEN /\ pc' = [pc EXCEPT ![c] = "Executing"]
                 /\ inflight' = [inflight EXCEPT ![c] = TRUE]
                 /\ UNCHANGED outcome
            ELSE /\ pc' = [pc EXCEPT ![c] = "Failed"]
                 /\ outcome' = [outcome EXCEPT ![c] = ThrownError(checked.error.text, FALSE)]
                 /\ UNCHANGED inflight
    /\ UNCHANGED <<version, query, db, timedOut, retryOverdue>>
    /\ UNCHANGED otherVars

\* validation, then sanitizedQuery and the first sql.query(sanitizedQuery)
Validate(c) ==
    /\ pc[c] = "Validating"
    /\ \E checked \in {validation(version, query[c])} :
         IF checked.isValid
         THEN /\ pc' = [pc EXCEPT ![c] = "Executing"]
              /\ \E text \in {sanitize(version, query[c])} :
                   /\ sanitizedQuery' = [sanitizedQuery EXCEPT ![c] = text]
                   /\ Issue(c, "query", text)
              /\ inflight' = [inflight EXCEPT ![c] = TRUE]
              /\ UNCHANGED outcome
         ELSE /\ pc' = [pc EXCEPT ![c] = "Failed"]
              /\ outcome' = [outcome EXCEPT ![c] = ThrownError(checked.error.text, FALSE)]
              /\ UNCHANGED <<sanitizedQuery, log, inflight>>
    /\ UNCHANGED <<version, query, db, timedOut, retryOverdue>>
    /\ UNCHANGED otherVars

\* the first execution returns rows
QueryOk(c) ==
    /\ pc[c] = "Executing"
    /\ db.exists
    /\ pc' = [pc EXCEPT ![c] = "Succeeded"]
    /\ outcome' = [outcome EXCEPT ![c] = Rows(db.rows)]
    /\ Settle(c, "ok")
    /\ inflight' = [inflight EXCEPT ![c] = FALSE]
    /\ UNCHANGED <<version, query, sanitizedQuery, db, timedOut, retryOverdue>>
    /\ UNCHANGED otherVars

\* the first execution fails with e
QueryFail(c, e) ==
    /\ pc[c] = "Executing"
    /\ inflight' = [inflight EXCEPT ![c] = FALSE]
    /\ IF afterQueryError(version, e).creates
       THEN /\ pc' = [pc EXCEPT ![c] = "Creating"]
            /\ SettleAndIssue(c, ResultOf(e), "create", <<>>)
            /\ UNCHANGED outcome
       ELSE /\ pc' = [pc EXCEPT ![c] = "Failed"]
            /\ outcome' = [outcome EXCEPT ![c] = afterQueryError(version, e).thrown]
            /\ Settle(c, ResultOf(e))
    /\ UNCHANGED <<version, query, sanitizedQuery, db, timedOut, retryOverdue>>
    /\ UNCHANGED otherVars

\* DEFAULT_TIMEOUT elapses while the first execution is still running.
\* p002: the timer of Promise.race rejects, the catch block throws the timeout
\* error, and nothing is sent to the database about the running query.
\* app: there is no timer; the call keeps waiting.
Deadline(c) ==
    /\ pc[c] = "Executing"
    /\ ~timedOut[c]
    /\ timedOut' = [timedOut EXCEPT ![c] = TRUE]
    /\ IF version = "p002"
       THEN /\ pc' = [pc EXCEPT ![c] = "Failed"]
            /\ outcome' = [outcome EXCEPT ![c] = QueryTimedOut]
       ELSE UNCHANGED <<pc, outcome>>
    /\ UNCHANGED <<version, query, sanitizedQuery, log, db, inflight, retryOverdue>>
    /\ UNCHANGED otherVars

\* the database finishes a query whose call has already failed with the timeout
OrphanDone(c) ==
    /\ pc[c] = "Failed"
    /\ inflight[c]
    /\ inflight' = [inflight EXCEPT ![c] = FALSE]
    /\ Settle(c, "late")
    /\ UNCHANGED <<version, pc, query, sanitizedQuery, outcome, db, timedOut, retryOverdue>>
    /\ UNCHANGED otherVars

\* CREATE TABLE legalprompt succeeds: the table did not exist
CreateOk(c) ==
    /\ pc[c] = "Creating"
    /\ version # "p001"
    /\ ~db.exists
    /\ db' = [exists |-> TRUE, rows |-> 0]
    /\ pc' = [pc EXCEPT ![c] = "Seeding"]
    /\ SettleAndIssue(c, "ok", "seed", <<>>)
    /\ UNCHANGED <<version, query, sanitizedQuery, outcome, inflight, timedOut, retryOverdue>>
    /\ UNCHANGED otherVars

\* p001: CREATE TABLE and INSERT are one sql.query call, which the database
\* runs as one transaction; it succeeds, and the original query is sent again
CreateAndSeedOk(c) ==
    /\ pc[c] = "Creating"
    /\ version = "p001"
    /\ ~db.exists
    /\ db' = [exists |-> TRUE, rows |-> SeedRows]
    /\ pc' = [pc EXCEPT ![c] = "Retrying"]
    /\ log' = [log EXCEPT ![c] =
                  [@ EXCEPT ![Len(@)].result = "ok"]
                      \o <<[Entry("seed", <<>>) EXCEPT !.result = "ok"],
                           Entry("query", sanitizedQuery[c])>>]
    /\ UNCHANGED <<version, query, sanitizedQuery, outcome, inflight, timedOut, retryOverdue>>
    /\ UNCHANGED otherVars

\* CREATE TABLE legalprompt fails: 42P07 when the table exists, or a transient error
CreateFail(c, e) ==
    /\ pc[c] = "Creating"
    /\ (e = DuplicateTable) = db.exists
    /\ pc' = [pc EXCEPT ![c] = "Failed"]
    /\ outcome' = [outcome EXCEPT ![c] = afterSetupError(version, e)]
    /\ Settle(c, ResultOf(e))
    /\ UNCHANGED <<version, query, sanitizedQuery, db, inflight, timedOut, retryOverdue>>
    /\ UNCHANGED otherVars

\* SeedOk with an INSERT that stores all of its rows but the last
SeedOkShort(c) ==
    /\ pc[c] = "Seeding"
    /\ db.exists
    /\ db' = [db EXCEPT !.rows = @ + SeedRows - 1]
    /\ pc' = [pc EXCEPT ![c] = "Retrying"]
    /\ SettleAndIssue(c, "ok", "query", sanitizedQuery[c])
    /\ UNCHANGED <<version, query, sanitizedQuery, outcome, inflight, timedOut, retryOverdue>>
    /\ UNCHANGED otherVars

\* the seed INSERT succeeds, and the original query is sent again
SeedOk(c) ==
    /\ pc[c] = "Seeding"
    /\ db.exists
    /\ db' = [db EXCEPT !.rows = @ + SeedRows]
    /\ pc' = [pc EXCEPT ![c] = "Retrying"]
    /\ SettleAndIssue(c, "ok", "query", sanitizedQuery[c])
    /\ UNCHANGED <<version, query, sanitizedQuery, outcome, inflight, timedOut, retryOverdue>>
    /\ UNCHANGED otherVars

\* SeedFail with the INSERT's error swallowed: the query is retried all the same
SeedFailRetries(c, e) ==
    /\ pc[c] = "Seeding"
    /\ pc' = [pc EXCEPT ![c] = "Retrying"]
    /\ SettleAndIssue(c, ResultOf(e), "query", sanitizedQuery[c])
    /\ UNCHANGED <<version, query, sanitizedQuery, outcome, db, inflight, timedOut, retryOverdue>>
    /\ UNCHANGED otherVars

\* the seed INSERT fails
SeedFail(c, e) ==
    /\ pc[c] = "Seeding"
    /\ pc' = [pc EXCEPT ![c] = "Failed"]
    /\ outcome' = [outcome EXCEPT ![c] = afterSetupError(version, e)]
    /\ Settle(c, ResultOf(e))
    /\ UNCHANGED <<version, query, sanitizedQuery, db, inflight, timedOut, retryOverdue>>
    /\ UNCHANGED otherVars

\* the retry returns rows
\* DEFAULT_TIMEOUT passes while the retry's sql.query(sanitizedQuery) runs: the
\* retry is awaited outside Promise.race, so no timer rejects and the call
\* keeps waiting for the database
RetryDeadline(c) ==
    /\ pc[c] = "Retrying"
    /\ ~retryOverdue[c]
    /\ retryOverdue' = [retryOverdue EXCEPT ![c] = TRUE]
    /\ UNCHANGED <<version, pc, query, sanitizedQuery, outcome, log, db, inflight, timedOut>>
    /\ UNCHANGED otherVars

RetryOk(c) ==
    /\ pc[c] = "Retrying"
    /\ db.exists
    /\ pc' = [pc EXCEPT ![c] = "Succeeded"]
    /\ outcome' = [outcome EXCEPT ![c] = Rows(db.rows)]
    /\ Settle(c, "ok")
    /\ UNCHANGED <<version, query, sanitizedQuery, db, inflight, timedOut, retryOverdue>>
    /\ UNCHANGED otherVars

\* RetryFail with a retry that, on 42P01, creates the table once more
RetryFailLoops(c, e) ==
    /\ pc[c] = "Retrying"
    /\ IF e.code = "42P01"
       THEN /\ pc' = [pc EXCEPT ![c] = "Creating"]
            /\ log' = [log EXCEPT ![c] = <<Entry("query", sanitizedQuery[c]),
                                           Entry("create", <<>>)>>]
            /\ UNCHANGED outcome
       ELSE /\ pc' = [pc EXCEPT ![c] = "Failed"]
            /\ outcome' = [outcome EXCEPT ![c] = afterRetryError(version, e)]
            /\ Settle(c, ResultOf(e))
    /\ UNCHANGED <<version, query, sanitizedQuery, db, inflight, timedOut, retryOverdue>>
    /\ UNCHANGED otherVars

\* the retry fails with e
RetryFail(c, e) ==
    /\ pc[c] = "Retrying"
    /\ pc' = [pc EXCEPT ![c] = "Failed"]
    /\ outcome' = [outcome EXCEPT ![c] = afterRetryError(version, e)]
    /\ Settle(c, ResultOf(e))
    /\ UNCHANGED <<version, query, sanitizedQuery, db, inflight, timedOut, retryOverdue>>
    /\ UNCHANGED otherVars

\* the client has its answer; the caller may call again
Return(c) ==
    /\ pc[c] \in {"Succeeded", "Failed"}
    /\ ~inflight[c]
    /\ pc' = [pc EXCEPT ![c] = "idle"]
    /\ query' = [query EXCEPT ![c] = <<>>]
    /\ sanitizedQuery' = [sanitizedQuery EXCEPT ![c] = <<>>]
    /\ outcome' = [outcome EXCEPT ![c] = NoOutcome]
    /\ log' = [log EXCEPT ![c] = <<>>]
    /\ timedOut' = [timedOut EXCEPT ![c] = FALSE]
    /\ retryOverdue' = [retryOverdue EXCEPT ![c] = FALSE]
    /\ UNCHANGED <<version, db, inflight>>
    /\ UNCHANGED otherVars

Next ==
    \E c \in Callers :
        \/ \E q \in Queries : Call(c, q)
        \/ Validate(c)
        \/ QueryOk(c)
        \/ \E e \in QueryErrors : QueryFail(c, e)
        \/ Deadline(c)
        \/ OrphanDone(c)
        \/ CreateOk(c)
        \/ CreateAndSeedOk(c)
        \/ \E e \in TransientErrors \cup {DuplicateTable} : CreateFail(c, e)
        \/ SeedOk(c)
        \/ \E e \in TransientErrors : SeedFail(c, e)
        \/ RetryDeadline(c)
        \/ RetryOk(c)
        \/ \E e \in QueryErrors : RetryFail(c, e)
        \/ Return(c)

Spec == Init /\ [][Next]_vars

----------------------------------------------------------------------------
(* generateQuery: the Query Generator *)

sCreatedatLc      == <<"c","r","e","a","t","e","d","a","t">>
sCreated_at       == <<"c","r","e","a","t","e","d","_","a","t">>
sSystemmessageLc  == <<"s","y","s","t","e","m","m","e","s","s","a","g","e">>
sSystem_message   == <<"s","y","s","t","e","m","_","m","e","s","s","a","g","e">>

Quoted(s) == <<Q>> \o s \o <<Q>>

\* columnMappings of generateQuery, src/app/actions.ts, in insertion order
columnMappings == <<
    <<sCreatedatLc,                         Quoted(sCreatedAt)>>,
    <<sCreated_at,                          Quoted(sCreatedAt)>>,
    <<sSystemmessageLc,                     Quoted(sSystemMessage)>>,
    <<sSystem_message,                      Quoted(sSystemMessage)>>,
    <<Quoted(Quoted(sCreatedAt)),           Quoted(sCreatedAt)>>,
    <<Quoted(Quoted(sSystemMessage)),       Quoted(sSystemMessage)>>,
    <<Quoted(<<"'">> \o sCreatedAt \o <<"'">>),     Quoted(sCreatedAt)>>,
    <<Quoted(<<"'">> \o sSystemMessage \o <<"'">>), Quoted(sSystemMessage)>> >>

\* p occurs in s at position i, whatever the letter case
OccursAtCI(s, p, i) ==
    /\ i + Len(p) - 1 <= Len(s)
    /\ \A k \in 1..Len(p) : LowerCh(s[i + k - 1]) = LowerCh(p[k])

\* s.replace(new RegExp(p, 'gi'), r) for a literal p, from position i on
RECURSIVE replaceFromCI(_, _, _, _)
replaceFromCI(s, p, r, i) ==
    IF i > Len(s) THEN <<>>
    ELSE Bind(First({j \in i..Len(s) : OccursAtCI(s, p, j)}), LAMBDA j :
             IF j = 0 THEN SubSeq(s, i, Len(s))
             ELSE SubSeq(s, i, j - 1) \o r \o replaceFromCI(s, p, r, j + Len(p)))

\* the set whose one element is s after the first k entries of columnMappings
\* have been applied, in order: Object.entries(columnMappings).forEach(...)
RECURSIVE mappedUpTo(_, _)
mappedUpTo(s, k) ==
    IF k = 0 THEN {s}
    ELSE {replaceFromCI(t, columnMappings[k][1], columnMappings[k][2], 1) :
              t \in mappedUpTo(s, k - 1)}

applyMappings(s) == CHOOSE t \in mappedUpTo(s, Len(columnMappings)) : TRUE

GeneratedQuery(text) == [kind |-> "query", text |-> text, cause |-> ""]
\* throw new Error("Failed to generate query" ...), with what caused it
GenerationFailure(cause) ==
    [kind |-> "Error", text |-> <<>>, cause |-> cause]

\* generateQuery, src/unnamed/part_002; svc is how generateObject ended and
\* out the query string of its result
generateQuery(svc, out) ==
    IF svc # "returns"
    THEN GenerationFailure("service")
    ELSE Bind(sanitizeSQL(out), LAMBDA sanitized :
         Bind(validateQuery(sanitized), LAMBDA checked :
             IF ~checked.isValid
             THEN GenerationFailure(checked.error.text)
             ELSE GeneratedQuery(fixColumnQuoting(sanitized))))

\* generateQuery, src/unnamed/part_001: the service's string as it came
generateQueryOld(svc, out) ==
    IF svc # "returns"
    THEN GenerationFailure("service")
    ELSE GeneratedQuery(out)

\* generateQuery, src/app/actions.ts
generateQueryApp(svc, out) ==
    IF svc # "returns"
    THEN GenerationFailure("service")
    ELSE Bind(applyMappings(out), LAMBDA mapped :
             GeneratedQuery(fixColumnQuotingApp(mapped)))

\* the string that generateQuery hands to validateQuery: src/unnamed/part_002
\* validates the sanitized string before fixColumnQuoting; the other two
\* revisions call no validation
validatedBy(ver, svc, out) ==
    IF svc = "returns" /\ ver = "p002"
    THEN [given |-> TRUE, text |-> sanitizeSQL(out)]
    ELSE NotValidated

----------------------------------------------------------------------------
(* The pipeline functions applied to bounded inputs *)

\* the most fragments an input string is made of
MaxFrags == 3

Fragments == {
    <<"S","e","l","e","c","t"," ">>,
    <<" ">>,
    <<"d","r">>,
    <<"o","p">>,
    <<";">>,
    <<"-">>,
    sUpdate,
    sCreatedatLc }

RECURSIVE Strings(_)
Strings(n) ==
    IF n = 0 THEN {<<>>}
    ELSE Strings(n - 1) \cup {s \o f : s \in Strings(n - 1), f \in Fragments}

\* strings that break several rules of validateQuery at once
MaxRuleFrags == 3

RuleFragments == {
    <<"s","e","l","e","c","t"," ">>,
    <<"x">>,
    sDrop,
    sUpdate,
    sDashes,
    sOpenComment,
    sUnion,
    sExec }

RECURSIVE RuleStrings(_)
RuleStrings(n) ==
    IF n = 0 THEN {<<>>}
    ELSE LET shorter == RuleStrings(n - 1)
         IN  shorter \cup {t \o f : t \in shorter, f \in RuleFragments}

Inputs == Strings(MaxFrags) \cup RuleStrings(MaxRuleFrags)

ServiceOutcomes == {"returns", "throws", "noquery"}

PipeInit ==
    /\ version \in Versions
    /\ ExecInit
    /\ raw \in Inputs
    /\ service = "none"
    /\ verdict = NoVerdict
    /\ generated = NoQuery
    /\ step = "start"
    /\ normalized = NoNormalized
    /\ validated = NotValidated
    /\ ChartIdle
    /\ PageIdle
    /\ PagingIdle

\* the Validator is applied to raw
RunValidator ==
    /\ step = "start"
    /\ verdict' = validation(version, raw)
    /\ step' = "validated"
    /\ UNCHANGED <<version, execVars, raw, service, generated, normalized, validated>>
    /\ UNCHANGED <<chartVars, pageVars, pagingVars>>

\* generateQuery runs, the service ending as svc and, when it returns, with raw
RunGenerateQuery(svc) ==
    /\ step = "start"
    /\ service' = svc
    /\ generated' = CASE version = "p002" -> generateQuery(svc, raw)
                       [] version = "app"  -> generateQueryApp(svc, raw)
                       [] version = "p001" -> generateQueryOld(svc, raw)
    /\ validated' = validatedBy(version, svc, raw)
    /\ step' = "generated"
    /\ UNCHANGED <<version, execVars, raw, verdict, normalized>>
    /\ UNCHANGED <<chartVars, pageVars, pagingVars>>

PipeNext ==
    \/ RunValidator
    \/ \E svc \in ServiceOutcomes : RunGenerateQuery(svc)

PipeSpec == PipeInit /\ [][PipeNext]_vars

----------------------------------------------------------------------------
(* Fairness: every database call returns or fails, and a call that has been *)
(* received is validated                                                    *)

DbResponds(c) ==
    \/ QueryOk(c)
    \/ \E e \in QueryErrors : QueryFail(c, e)
    \/ CreateOk(c)
    \/ CreateAndSeedOk(c)
    \/ \E e \in TransientErrors \cup {DuplicateTable} : CreateFail(c, e)
    \/ SeedOk(c)
    \/ \E e \in TransientErrors : SeedFail(c, e)
    \/ RetryOk(c)
    \/ \E e \in QueryErrors : RetryFail(c, e)

FairSpec ==
    Spec /\ \A c \in Callers : WF_vars(Validate(c)) /\ WF_vars(DbResponds(c))

----------------------------------------------------------------------------
(* The predicates the claims are stated with *)

\* s, trimmed and lower-cased, starts with "select"
BeginsWithSelect(s) ==
    \E i \in 1..Len(s) :
        /\ \A j \in 1..(i - 1) : IsWhite(s[j])
        /\ i + 5 <= Len(s)
        /\ \A k \in 1..6 : LowerCh(s[i + k - 1]) = sSelect[k]

\* s contains the lower-case word w, whatever the letter case in s
ContainsNoCase(s, w) ==
    \E i \in 1..Len(s) :
        /\ i + Len(w) - 1 <= Len(s)
        /\ \A k \in 1..Len(w) : LowerCh(s[i + k - 1]) = w[k]

Forbidden == {sDrop, sDelete, sInsert, sUpdate, sTruncate, sAlter}

ForbiddenIn(s) == {w \in Forbidden : ContainsNoCase(s, w)}

\* read-only and free of forbidden keywords
ReadOnlyPredicate(s) == BeginsWithSelect(s) /\ ForbiddenIn(s) = {}

\* the whole predicate of the Validator: also free of suspicious patterns
ValidatorAccepts(s) ==
    /\ ReadOnlyPredicate(s)
    /\ \A w \in {sDashes, sOpenComment, sUnion, sExec, sXp, sWaitfor} : ~ContainsNoCase(s, w)

Terminal == {"Succeeded", "Failed"}

\* the statement a call handed to sql.query last, and whether it has failed
LastEntry(c) == log[c][Len(log[c])]
Failure(res) == res \notin {"pending", "ok", "late"}

\* the user's query of call c has failed, otherwise than with 42P01 on the
\* first execution
UserQueryFailed(c) ==
    /\ log[c] # <<>>
    /\ LastEntry(c).stmt = "query"
    /\ Failure(LastEntry(c).result)

RetryFailed(c) == Len(log[c]) = 4 /\ UserQueryFailed(c)

----------------------------------------------------------------------------
(* The claims *)

\* C1: every SQL text that getLegalPrompts sends to the database for the
\* user's query, on the first execution and on the retry, starts with
\* "select" (trimmed, lower-cased) and contains no forbidden keyword.
C1_SentQueryIsReadOnly ==
    \A c \in Callers : \A i \in DOMAIN log[c] :
        log[c][i].stmt = "query" => ReadOnlyPredicate(log[c][i].text)

\* C2: a string whose trimmed, lower-cased form does not start with "select"
\* is rejected by the Validator with the reason "Only SELECT queries are
\* allowed".
C2_NonSelectRejected ==
    (step = "validated" /\ ~BeginsWithSelect(raw)) =>
        /\ ~verdict.isValid
        /\ verdict.error.text = "Only SELECT queries are allowed"

C2_Witness ==
    /\ step = "validated"
    /\ ~BeginsWithSelect(raw)
    /\ ContainsNoCase(raw, sSelect)
    /\ ~verdict.isValid

\* C3: a string that contains a forbidden keyword anywhere, in any letter
\* case, is rejected by the Validator and the reason names a forbidden
\* keyword the string contains.
C3_KeywordRejectedAndNamed ==
    (step = "validated" /\ ForbiddenIn(raw) # {}) =>
        /\ ~verdict.isValid
        /\ verdict.error.keyword \in ForbiddenIn(raw)

\* C4: generateQuery returns a string only when the service returned one, and
\* the string returned satisfies the Validator; every other call fails with
\* the "Failed to generate query" error.
C4_GeneratedQueryIsValidOrFails ==
    step = "generated" =>
        \/ /\ generated.kind = "query"
           /\ service = "returns"
           /\ ValidatorAccepts(generated.text)
        \/ generated.kind = "Error"

\* C5: a call executes the user's query at most twice; the second execution
\* is the fourth statement of the call, after the first execution failed with
\* 42P01, the CREATE TABLE succeeded and then the seed INSERT succeeded; and
\* no statement follows the retry.
C5_AtMostOneRetry ==
    \A c \in Callers :
        /\ Len(log[c]) <= 4
        /\ Cardinality({i \in DOMAIN log[c] : log[c][i].stmt = "query"}) <= 2
        /\ \A i \in DOMAIN log[c] :
               (i > 1 /\ log[c][i].stmt = "query") =>
                   /\ i = 4
                   /\ log[c][1].stmt = "query" /\ log[c][1].result = "42P01"
                   /\ log[c][2].stmt = "create" /\ log[c][2].result = "ok"
                   /\ log[c][3].stmt = "seed" /\ log[c][3].result = "ok"

C5_Witness ==
    \E c \in Callers :
        /\ RetryFailed(c)
        /\ pc[c] = "Failed"

\* C6: when the retry fails, whatever the error, the call fails with an error
\* object that carries a message: it returns no rows and does not throw null.
C6_FailedRetryThrowsAnError ==
    \A c \in Callers :
        RetryFailed(c) =>
            /\ pc[c] = "Failed"
            /\ outcome[c].kind \in {"Error", "raw"}

Phase(p) == IF p \in {"Creating", "Seeding"} THEN "AutoCreatingSchema" ELSE p

SpecTransitions == {
    <<"Validating", "Executing">>,
    <<"Executing", "Succeeded">>,
    <<"Executing", "Failed">>,
    <<"Executing", "AutoCreatingSchema">>,
    <<"AutoCreatingSchema", "Retrying">>,
    <<"Retrying", "Succeeded">>,
    <<"Retrying", "Failed">> }

\* within one call, every change of phase is one of the transitions of T
MovesAlong(T) ==
    \A c \in Callers :
        (pc[c] # "idle" /\ pc'[c] # "idle" /\ Phase(pc'[c]) # Phase(pc[c])) =>
            <<Phase(pc[c]), Phase(pc'[c])>> \in T

EveryCallEnds ==
    \A c \in Callers : (pc[c] = "Validating") ~> (pc[c] \in Terminal)

\* C7, as stated: a call moves only along the seven transitions of the state
\* machine and, when every database call returns or fails, ends in Succeeded
\* or Failed.
C7_OnlySpecTransitions ==
    [][MovesAlong(SpecTransitions)]_vars /\ EveryCallEnds

\* C7, amended: a call moves only along the seven transitions and
\* Validating->Failed (the query is rejected) and AutoCreatingSchema->Failed
\* (CREATE TABLE or the seed INSERT fails), and, when every database call
\* returns or fails, ends in Succeeded or Failed.
C7_TransitionsWithFailures ==
    /\ [][MovesAlong(SpecTransitions \cup {<<"Validating", "Failed">>,
                                           <<"AutoCreatingSchema", "Failed">>})]_vars
    /\ EveryCallEnds

C7_Witness ==
    \E c \in Callers :
        /\ pc[c] = "Failed"
        /\ Len(log[c]) \in {2, 3}
        /\ Failure(LastEntry(c).result)

\* C8: when the user's query fails with an engine error code (other than
\* 42P01 on the first execution), the call fails with the fixed message of
\* that code when the revision's mapping has the code, and with the generic
\* unexpected-database-error message when it has not.
C8_MappedOrGenericMessage ==
    \A c \in Callers :
        (UserQueryFailed(c) /\ LastEntry(c).result # "failed") =>
            LET code == LastEntry(c).result
                map  == CASE version = "p002" -> errorMap
                          [] version = "app"  -> errorMapApp
                          [] version = "p001" -> [k \in {} |-> ""]
            IN  /\ pc[c] = "Failed"
                /\ outcome[c].kind = "Error"
                /\ outcome[c].text = IF code \in DOMAIN map
                                     THEN map[code]
                                     ELSE "An unexpected database error occurred"

\* C9: once the first execution has outlasted the timeout, the call has
\* failed with the timeout error and its query no longer runs at the database.
C9_TimeoutCancelsQuery ==
    \A c \in Callers :
        timedOut[c] =>
            /\ pc[c] = "Failed"
            /\ outcome[c] = QueryTimedOut
            /\ ~inflight[c]

\* C10: when both calls have observed 42P01 on their first execution and one
\* of them has created the table, the other one's CREATE TABLE does not fail
\* with "relation already exists" and that call does not fail.
C10_ConcurrentCreationSucceeds ==
    \A c, d \in Callers :
        ( /\ c # d
          /\ Len(log[c]) >= 2 /\ log[c][1].result = "42P01"
          /\ Len(log[d]) >= 2 /\ log[d][1].result = "42P01"
          /\ log[d][2].result = "ok" )
        => ~(log[c][2].result = "42P07" /\ pc[c] = "Failed")

\* no call is in the middle of creating and seeding the table
NoSetupRunning == \A c \in Callers : pc[c] \notin {"Creating", "Seeding"}

\* C11: whenever no call is in the middle of creating and seeding the table,
\* the table legalprompt does not exist or holds exactly the three seed rows.
C11_TableAbsentOrSeeded ==
    (NoSetupRunning /\ db.exists) => db.rows = SeedRows

\* call c found no table, and its CREATE TABLE, its INSERT and its retry succeeded
CreatedSeededAndRetried(c) ==
    /\ pc[c] = "Succeeded"
    /\ Len(log[c]) = 4
    /\ log[c][1].result = "42P01"
    /\ \A i \in 2..4 : log[c][i].result = "ok"

\* C12: when a call found no table and its CREATE TABLE, INSERT and retry all
\* succeeded, the table holds exactly 3 rows and the call returns the rows of
\* the retried query over those 3 seed rows.
C12_RetryReturnsSeedRows ==
    \A c \in Callers :
        CreatedSeededAndRetried(c) =>
            /\ db.exists /\ db.rows = 3
            /\ outcome[c] = Rows(3)

C12_Witness == \E c \in Callers : CreatedSeededAndRetried(c)

\* C13: a call whose query the revision's validation rejects fails with the
\* validation's reason and has handed no statement to the database, and every
\* call that has handed one over has a query the validation accepts.
C13_RejectedQueryTouchesNothing ==
    /\ \A c \in Callers :
           (pc[c] \in {"Executing", "Creating", "Seeding", "Retrying"} \/ log[c] # <<>>)
               => validation(version, query[c]).isValid
    /\ \A c \in Callers :
           (pc[c] \in Terminal /\ ~validation(version, query[c]).isValid) =>
               /\ pc[c] = "Failed"
               /\ log[c] = <<>>
               /\ outcome[c] = ThrownError(validation(version, query[c]).error.text, FALSE)

C13_Witness ==
    \E c \in Callers :
        /\ pc[c] = "Failed"
        /\ ~validation(version, query[c]).isValid
        /\ db.exists

-----------------------------------------------------------------------------
\* generateChartConfig.  A row sequence is its length, a series key a number,
\* a colour `hsl(var(--chart-N))` the number N, and an optional field that is
\* missing "undefined".  The revisions "app" and "p001" have the same code.

MaxRows == 2
MaxKeys == 13
paletteSize == 12

\* the colours the chart components define: --chart-1 .. --chart-12
Palette == 1..paletteSize

\* n series keys, all different
DistinctKeys(n) == [i \in 1..n |-> i]

\* what the service may put in yKeys: z.array(z.string()) allows any length,
\* the empty array and repeated keys
KeyLists ==
    {DistinctKeys(n) : n \in 0..MaxKeys} \cup UNION {[1..n -> 1..2] : n \in 2..3}

Proposals == {"true", "false", "undefined"}
ProposedColors == {"own", "undefined"}

Bool(b) == IF b THEN "true" ELSE "false"

\* the promise of generateChartConfig, not settled yet
Pending == [kind |-> "pending"]

Config(yKeys, colors, legend) ==
    [kind |-> "config", yKeys |-> yKeys, colors |-> colors, legend |-> legend]

\* `hsl(var(--chart-${...}))` for the key at index (from 0)
colorAt(v, index) == IF v = "p002" THEN (index % paletteSize) + 1 ELSE index + 1

\* yKeys.forEach((key, index) => colors[key] = ...): a later index overwrites
assignColors(v, yKeys) ==
    [key \in Range(yKeys) |->
        colorAt(v, Last({i \in 1..Len(yKeys) : yKeys[i] = key}) - 1)]

\* what generateChartConfig does with the service's answer
afterService(v, resp) ==
    IF v = "p002"
    THEN IF resp.ends = "throws"
         THEN ThrownError("Failed to generate chart", "service error")
         ELSE IF Len(resp.yKeys) = 0
         THEN ThrownError("Failed to generate chart",
                          "Invalid chart configuration: missing yKeys")
         ELSE Config(resp.yKeys, assignColors(v, resp.yKeys), Bool(Len(resp.yKeys) > 1))
    ELSE IF resp.ends = "throws"
         THEN ThrownError("Failed to generate chart suggestion", FALSE)
         ELSE Config(resp.yKeys, assignColors(v, resp.yKeys), resp.legend)

ChartInit ==
    /\ version \in Versions
    /\ ExecInit
    /\ PipeIdle
    /\ PageIdle
    /\ PagingIdle
    /\ results \in 0..MaxRows
    /\ response = NoResponse
    /\ serviceCalls = 0
    /\ chart = NoChart

\* generateChartConfig is called: up to the await of generateObject
CallGenerateChartConfig ==
    /\ chart = NoChart
    /\ IF version = "p002" /\ results = 0
       THEN /\ chart' = ThrownError("No data available for visualization", FALSE)
            /\ UNCHANGED serviceCalls
       ELSE /\ chart' = Pending
            /\ serviceCalls' = serviceCalls + 1
    /\ UNCHANGED <<version, execVars, pipeVars, pageVars, pagingVars, results, response>>

\* generateObject returns an object of configSchema
ServiceReturns(yKeys, legend, colors) ==
    /\ chart = Pending
    /\ response' = [ends |-> "returns", yKeys |-> yKeys, legend |-> legend, colors |-> colors]
    /\ chart' = afterService(version, response')
    /\ UNCHANGED <<version, execVars, pipeVars, pageVars, pagingVars, results, serviceCalls>>

\* generateObject throws
ServiceThrows ==
    /\ chart = Pending
    /\ response' = [NoResponse EXCEPT !.ends = "throws"]
    /\ chart' = afterService(version, response')
    /\ UNCHANGED <<version, execVars, pipeVars, pageVars, pagingVars, results, serviceCalls>>

ChartNext ==
    \/ CallGenerateChartConfig
    \/ \E yKeys \in KeyLists, legend \in Proposals, colors \in ProposedColors :
           ServiceReturns(yKeys, legend, colors)
    \/ ServiceThrows

ChartSpec == ChartInit /\ [][ChartNext]_vars

\* the call has settled
ChartSettled == chart.kind \in {"config", "Error"}

\* C14: when generateChartConfig is called with an empty row sequence the
\* service is never invoked, and the call fails with the no-data error.
C14_EmptyRowsFailWithoutService ==
    results = 0 =>
        /\ serviceCalls = 0
        /\ chart # NoChart => chart = ThrownError("No data available for visualization", FALSE)

\* C15: a config returned for a response with at least one series key has
\* legend = true exactly when there is more than one series key, whatever the
\* service proposed.
C15_LegendFollowsKeyCount ==
    (chart.kind = "config" /\ Len(response.yKeys) >= 1) =>
        chart.legend = Bool(Len(chart.yKeys) > 1)

\* C16: in a returned config the key at index i of yKeys has the palette's
\* colour number (i mod paletteSize), so every colour lies inside the palette,
\* whatever colours the service proposed.
C16_ColoursCycleInPalette ==
    chart.kind = "config" =>
        \A i \in 1..Len(chart.yKeys) :
            /\ chart.colors[chart.yKeys[i]] = ((i - 1) % paletteSize) + 1
            /\ chart.colors[chart.yKeys[i]] \in Palette

\* C17: when the service returns zero series keys the call fails with the
\* invalid-chart-configuration error and returns no config.
C17_NoSeriesKeysIsAnError ==
    (ChartSettled /\ response.ends = "returns" /\ Len(response.yKeys) = 0) =>
        /\ chart.kind = "Error"
        /\ chart.detail = "Invalid chart configuration: missing yKeys"

-----------------------------------------------------------------------------
\* The page.  "page" is src/app/page.tsx, "p000" is src/unnamed/part_000, an
\* older revision of the same file.  A submission is a call of handleSubmit
\* that reaches executeQuery; it runs from one await to the next, and pagePc
\* holds one entry for each, in the order they began.  The three server
\* actions are the environment, and each returns or throws.  The query
\* generated for the r-th submission is <<r>>, its chart config <<r>>, and each
\* of its rows carries r and the keys of the row, so that what belongs to two
\* submissions differs.  history records, and does not influence, what
\* happened: the handler calls so far, the latest submission (0 after
\* handleClear), the rows the acting submission fetched, the await at which it
\* failed, what executeQuery returned, the rows of the last submission for
\* which executeQuery returned true, and the number of notifications when it
\* began; handleClear forgets all but the calls.

PageRevs == {"page", "p000"}
MaxCalls == 2

\* what the user may have typed, and the suggestion the user may click
Typed == {<<>>, <<" ">>, <<"q">>}
Suggestions == {<<"s">>}

\* the key lists of the rows a query may return
RowKeys == {<<"id", "name">>, <<"category", "count">>}

\* n rows with the given keys, fetched by the r-th submission
RowsOf(r, n, keys) == [i \in 1..n |-> [call |-> r, keys |-> keys]]

\* legalPrompts.length > 0 ? Object.keys(legalPrompts[0]) : []
ColumnsOf(rows) == IF Len(rows) > 0 THEN rows[1].keys ELSE <<>>

\* the awaits of executeQuery
Awaits == {"generateQuery", "getLegalPrompts", "generateChartConfig"}

\* no submission is waiting for a server action
Quiet == \A r \in DOMAIN pagePc : pagePc[r] \notin Awaits

\* handleSubmit from the reset of queryState to the await of generateQuery
StartSubmit(value) ==
    /\ queryState' = EmptyQueryState
    /\ loading' = [status |-> TRUE, step |-> 1, error |-> "undefined"]
    /\ input' = [value |-> value, submitted |-> TRUE]
    /\ pagePc' = Append(pagePc, "generateQuery")
    /\ history' = [history EXCEPT !.calls = @ + 1, !.latest = Len(pagePc) + 1,
                                  !.fetched = <<>>, !.failedAt = "none",
                                  !.returned = "none", !.toastsBefore = Len(toasts)]
    /\ UNCHANGED toasts

\* executeQuery of submission r returns success after showing the
\* notifications shown, and handleSubmit runs to its end
Returns(r, success, shown, failedAt, rows) ==
    /\ pagePc' = [pagePc EXCEPT ![r] = IF success THEN "succeeded" ELSE "failed"]
    /\ toasts' = toasts \o shown \o
                   (IF pageRev = "p000" /\ ~success
                    THEN <<"Failed to process query. Please try again.">>
                    ELSE <<>>)
    /\ input' = IF pageRev = "page" /\ ~success
                THEN [input EXCEPT !.submitted = FALSE]
                ELSE input
    /\ loading' = [loading EXCEPT !.status = FALSE,
                                  !.error = IF pageRev = "page" /\ ~success
                                            THEN "Query execution failed"
                                            ELSE @]
    /\ history' = [history EXCEPT !.returned = Bool(success), !.failedAt = failedAt,
                                  !.lastGood = IF success THEN rows ELSE @]

\* what executeQuery's outer catch shows: page.tsx shows the error's message
Caught(message) == IF pageRev = "page" THEN <<message>> ELSE <<>>

PageInit ==
    /\ version \in Versions
    /\ ExecInit
    /\ PipeIdle
    /\ ChartIdle
    /\ pageRev \in PageRevs
    /\ PageStart
    /\ PagingIdle

\* the user types into the search field
setInputValue(value) ==
    /\ input.value # value
    /\ input' = [input EXCEPT !.value = value]
    /\ UNCHANGED <<version, execVars, pipeVars, chartVars, pagingVars>>
    /\ UNCHANGED <<pageRev, pagePc, queryState, loading, toasts, history>>

\* the user submits the search form: handleSubmit()
handleSubmit ==
    /\ history.calls < MaxCalls
    /\ IF trim(input.value) = <<>>
       THEN /\ toasts' = IF pageRev = "page"
                         THEN Append(toasts, "Please enter a query first")
                         ELSE toasts
            /\ history' = [history EXCEPT !.calls = @ + 1]
            /\ UNCHANGED <<pagePc, input, queryState, loading>>
       ELSE StartSubmit(input.value)
    /\ UNCHANGED <<version, execVars, pipeVars, chartVars, pagingVars, pageRev>>

\* the user clicks a suggested query, shown while nothing is submitted
handleSuggestionClick(suggestion) ==
    /\ history.calls < MaxCalls
    /\ ~input.submitted
    /\ StartSubmit(suggestion)
    /\ UNCHANGED <<version, execVars, pipeVars, chartVars, pagingVars, pageRev>>

\* the user clicks Clear
handleClear ==
    /\ history.calls < MaxCalls
    /\ input' = [value |-> <<>>, submitted |-> FALSE]
    /\ queryState' = EmptyQueryState
    /\ loading' = IF pageRev = "page"
                  THEN [status |-> FALSE, step |-> 1, error |-> "undefined"]
                  ELSE loading
    /\ toasts' = IF pageRev = "page" THEN Append(toasts, "Cleared all results") ELSE toasts
    /\ history' = [NoHistory EXCEPT !.calls = history.calls + 1]
    /\ UNCHANGED <<version, execVars, pipeVars, chartVars, pagingVars, pageRev, pagePc>>

\* generateQuery of submission r returns sqlText, which may be the empty string
GenerateQueryReturns(r, sqlText) ==
    /\ pagePc[r] = "generateQuery"
    /\ IF sqlText # <<>>
       THEN /\ queryState' = [queryState EXCEPT !.active = sqlText]
            /\ loading' = [loading EXCEPT !.step = 2]
            /\ pagePc' = [pagePc EXCEPT ![r] = "getLegalPrompts"]
            /\ UNCHANGED <<input, toasts, history>>
       ELSE /\ Returns(r, FALSE,
                       IF pageRev = "page"
                       THEN <<"Could not generate a valid SQL query. Please try rephrasing your question.">>
                       ELSE <<>>,
                       "generateQuery", <<>>)
            /\ UNCHANGED queryState
    /\ UNCHANGED <<version, execVars, pipeVars, chartVars, pagingVars, pageRev>>

\* generateQuery of submission r throws
GenerateQueryThrows(r) ==
    /\ pagePc[r] = "generateQuery"
    /\ Returns(r, FALSE, Caught("generateQuery's error"), "generateQuery", <<>>)
    /\ UNCHANGED queryState
    /\ UNCHANGED <<version, execVars, pipeVars, chartVars, pagingVars, pageRev>>

\* GetLegalPromptsReturns with the rows stored and the columns left as they were
GetLegalPromptsReturnsRowsOnly(r, n, keys) ==
    /\ pagePc[r] = "getLegalPrompts"
    /\ \E legalPrompts \in {RowsOf(r, n, keys)} :
         /\ queryState' = [queryState EXCEPT !.results = legalPrompts]
         /\ history' = [history EXCEPT !.fetched = legalPrompts]
    /\ pagePc' = [pagePc EXCEPT ![r] = "generateChartConfig"]
    /\ UNCHANGED <<input, loading, toasts>>
    /\ UNCHANGED <<version, execVars, pipeVars, chartVars, pagingVars, pageRev>>

\* getLegalPrompts of submission r returns n rows with the given keys
GetLegalPromptsReturns(r, n, keys) ==
    /\ pagePc[r] = "getLegalPrompts"
    /\ \E legalPrompts \in {RowsOf(r, n, keys)} :
         /\ queryState' = [queryState EXCEPT !.results = legalPrompts,
                                             !.columns = ColumnsOf(legalPrompts)]
         /\ history' = [history EXCEPT !.fetched = legalPrompts]
    /\ pagePc' = [pagePc EXCEPT ![r] = "generateChartConfig"]
    /\ UNCHANGED <<input, loading, toasts>>
    /\ UNCHANGED <<version, execVars, pipeVars, chartVars, pagingVars, pageRev>>

\* getLegalPrompts of submission r throws: validation, database and timeout
\* errors
GetLegalPromptsThrows(r) ==
    /\ pagePc[r] = "getLegalPrompts"
    /\ Returns(r, FALSE, Caught("getLegalPrompts' error"), "getLegalPrompts", <<>>)
    /\ UNCHANGED queryState
    /\ UNCHANGED <<version, execVars, pipeVars, chartVars, pagingVars, pageRev>>

\* generateChartConfig of submission r returns { config }
GenerateChartConfigReturns(r) ==
    /\ pagePc[r] = "generateChartConfig"
    /\ queryState' = [queryState EXCEPT !.chartConfig = <<r>>]
    /\ Returns(r, TRUE, <<>>, "none", history.fetched)
    /\ UNCHANGED <<version, execVars, pipeVars, chartVars, pagingVars, pageRev>>

\* generateChartConfig of submission r throws: page.tsx catches it next to the
\* call, part_000 in the catch of the whole executeQuery
GenerateChartConfigThrows(r) ==
    /\ pagePc[r] = "generateChartConfig"
    /\ IF pageRev = "page"
       THEN Returns(r, TRUE,
                    <<"Could not generate visualization, but data is available in table form.">>,
                    "generateChartConfig", history.fetched)
       ELSE Returns(r, FALSE, <<>>, "generateChartConfig", <<>>)
    /\ UNCHANGED queryState
    /\ UNCHANGED <<version, execVars, pipeVars, chartVars, pagingVars, pageRev>>

\* what the user can do
UserActs ==
    \/ \E value \in Typed : setInputValue(value)
    \/ handleSubmit
    \/ \E suggestion \in Suggestions : handleSuggestionClick(suggestion)
    \/ handleClear

\* a server action answers a submission that waits for it
ServerResponds ==
    \E r \in DOMAIN pagePc :
        \/ \E sqlText \in {<<>>, <<r>>} : GenerateQueryReturns(r, sqlText)
        \/ GenerateQueryThrows(r)
        \/ \E n \in 0..MaxRows, keys \in RowKeys : GetLegalPromptsReturns(r, n, keys)
        \/ GetLegalPromptsThrows(r)
        \/ GenerateChartConfigReturns(r)
        \/ GenerateChartConfigThrows(r)

\* the user waits for the answer to one submission before acting again
PageNext ==
    \/ Quiet /\ UserActs
    \/ ServerResponds

PageSpec == PageInit /\ [][PageNext]_vars

\* the user acts at any time, also while submissions are waiting
RaceNext ==
    \/ UserActs
    \/ ServerResponds

RaceSpec == PageInit /\ [][RaceNext]_vars

\* each server action returns or throws
FairRaceSpec == RaceSpec /\ WF_vars(ServerResponds)

\* the last submission has ended, and it failed at the given await
EndedFailingAt(awaits) == Quiet /\ history.failedAt \in awaits

\* C18: when generateChartConfig has failed after getLegalPrompts returned
\* rows, the fetched rows and their columns are in queryState, executeQuery
\* has returned true and the results view is shown.
C18_ChartFailureKeepsRows ==
    EndedFailingAt({"generateChartConfig"}) =>
        /\ queryState.results = history.fetched
        /\ queryState.columns = ColumnsOf(history.fetched)
        /\ history.returned = "true"
        /\ input.submitted

\* C19: when a submission has failed in generateQuery or in getLegalPrompts, a
\* notification was shown for it and queryState.results holds the rows of the
\* most recent earlier successful submission.
C19_FailureKeepsPriorResults ==
    EndedFailingAt({"generateQuery", "getLegalPrompts"}) =>
        /\ Len(toasts) > history.toastsBefore
        /\ queryState.results = history.lastGood

-----------------------------------------------------------------------------
\* fixColumnQuoting applied to bounded strings, once and then to its own
\* result.  src/unnamed/part_001 has no fixColumnQuoting.

MaxNormFrags == 4

NormFragments ==
    {<<Q>>, <<"'">>, <<"a">>, <<" ">>, sCreatedAt, sCreatedatLc, sSystemMessage}

RECURSIVE NormStrings(_)
NormStrings(n) ==
    IF n = 0 THEN {<<>>}
    ELSE LET shorter == NormStrings(n - 1)
         IN  shorter \cup {t \o f : t \in shorter, f \in NormFragments}

\* strings with runs of quotes around a tracked name and around other text
MaxWrapFrags == 5

WrapFragments == {<<Q, Q>>, <<Q>>, <<"a">>, sCreatedAt}

RECURSIVE WrapStrings(_)
WrapStrings(n) ==
    IF n = 0 THEN {<<>>}
    ELSE LET shorter == WrapStrings(n - 1)
         IN  shorter \cup {t \o f : t \in shorter, f \in WrapFragments}

NormInputs == NormStrings(MaxNormFrags) \cup WrapStrings(MaxWrapFrags)

normalize(v, text) ==
    IF v = "p002" THEN fixColumnQuoting(text) ELSE fixColumnQuotingApp(text)

NormInit ==
    /\ version \in {"app", "p002"}
    /\ ExecInit
    /\ ChartIdle
    /\ PageIdle
    /\ PagingIdle
    /\ raw \in NormInputs
    /\ service = "none"
    /\ verdict = NoVerdict
    /\ generated = NoQuery
    /\ step = "start"
    /\ normalized = NoNormalized
    /\ validated = NotValidated

\* fixColumnQuoting(raw)
RunNormalizer ==
    /\ step = "start"
    /\ normalized' = [normalized EXCEPT !.once = normalize(version, raw)]
    /\ step' = "once"
    /\ UNCHANGED <<version, execVars, chartVars, pageVars, pagingVars, raw, service, verdict, generated, validated>>

\* fixColumnQuoting applied to the result of RunNormalizer
RunNormalizerAgain ==
    /\ step = "once"
    /\ normalized' = [normalized EXCEPT !.twice = normalize(version, normalized.once)]
    /\ step' = "twice"
    /\ UNCHANGED <<version, execVars, chartVars, pageVars, pagingVars, raw, service, verdict, generated, validated>>

NormNext ==
    \/ RunNormalizer
    \/ RunNormalizerAgain

NormSpec == NormInit /\ [][NormNext]_vars

\* C20: fixColumnQuoting applied to its own result returns that result.
C20_NormalizerIdempotent ==
    step = "twice" => normalized.twice = normalized.once

\* the first application quoted a column of a text that also holds a quote
C20_Witness ==
    /\ step = "twice"
    /\ normalized.once # raw
    /\ Q \in Range(raw)
    /\ Len(normalized.once) > Len(raw)

\* the tracked name column stands at position i of s, in any letter casing
NameAt(s, column, i) ==
    /\ i + Len(column) - 1 <= Len(s)
    /\ \A k \in 1..Len(column) : LowerCh(s[i + k - 1]) = LowerCh(column[k])

\* the characters next to the name at position i; "" at either end of s
Before(s, i) == IF i = 1 THEN "" ELSE s[i - 1]
After(s, column, i) == IF i + Len(column) > Len(s) THEN "" ELSE s[i + Len(column)]

\* positions of the whole-word occurrences of column that no quote touches
UnquotedAt(s, column) ==
    {i \in 1..Len(s) :
        /\ NameAt(s, column, i)
        /\ ~IsWordCh(Before(s, i)) /\ ~IsQuoteCh(Before(s, i))
        /\ ~IsWordCh(After(s, column, i)) /\ ~IsQuoteCh(After(s, column, i))}

\* positions of the occurrences of "column", spelled as in SENSITIVE_COLUMNS and
\* with a double quote on each side
CanonicalAt(s, column) ==
    {i \in 1..Len(s) :
        /\ i + Len(column) - 1 <= Len(s)
        /\ SubSeq(s, i, i + Len(column) - 1) = column
        /\ Before(s, i) = Q
        /\ After(s, column, i) = Q}

\* C21: the Normalizer's output has no whole-word occurrence of createdAt or
\* systemMessage, in any casing, that no quote touches; each such occurrence
\* of the input is there in the canonical double-quoted form, and the
\* occurrences that were canonically quoted in the input are still there.
C21_TrackedNamesQuoted ==
    step \in {"once", "twice"} =>
        \A k \in 1..Len(SENSITIVE_COLUMNS) :
            LET column == SENSITIVE_COLUMNS[k] IN
            /\ UnquotedAt(normalized.once, column) = {}
            /\ Cardinality(CanonicalAt(normalized.once, column))
                 = Cardinality(CanonicalAt(raw, column))
                     + Cardinality(UnquotedAt(raw, column))

\* the identifiers of s: its maximal runs of word characters
WordStarts(s) == {i \in 1..Len(s) : IsWordCh(s[i]) /\ ~IsWordCh(Before(s, i))}
WordFrom(s, i) ==
    LET stop == First({j \in i..Len(s) : ~IsWordCh(s[j])})
    IN  SubSeq(s, i, IF stop = 0 THEN Len(s) ELSE stop - 1)
Words(s) == {WordFrom(s, i) : i \in WordStarts(s)}

\* word w holds a tracked name in some casing, and more than the name
HoldsTrackedName(w) ==
    \E k \in 1..Len(SENSITIVE_COLUMNS) :
        /\ Len(w) > Len(SENSITIVE_COLUMNS[k])
        /\ \E i \in 1..Len(w) : NameAt(w, SENSITIVE_COLUMNS[k], i)

\* w stands in s, letter for letter
StandsIn(s, w) == \E i \in 1..Len(s) : OccursAt(s, w, i)

\* every tracked name of s is part of a longer identifier, and there is one
OnlyInsideIdentifiers(s) ==
    /\ \E w \in Words(s) : HoldsTrackedName(w)
    /\ \A k \in 1..Len(SENSITIVE_COLUMNS) : \A i \in 1..Len(s) :
           NameAt(s, SENSITIVE_COLUMNS[k], i) =>
               IsWordCh(Before(s, i)) \/ IsWordCh(After(s, SENSITIVE_COLUMNS[k], i))

\* C22: when the service's query holds createdAt or systemMessage (in any
\* casing) only inside longer identifiers, each of those identifiers stands
\* unbroken inside an identifier of the query that generateQuery returns.
C22_LongerIdentifiersUntouched ==
    (step = "generated" /\ generated.kind = "query" /\ OnlyInsideIdentifiers(raw)) =>
        \A w \in Words(raw) :
            HoldsTrackedName(w) =>
                \E u \in Words(generated.text) : StandsIn(u, w)

\* the number of double quotes that stand in a row just before position i of
\* s, and from position i on
QuotesBefore(s, i) == (i - 1) - Last({j \in 1..(i - 1) : s[j] # Q})
QuotesFrom(s, i) ==
    LET stop == First({j \in i..Len(s) : s[j] # Q})
    IN  IF stop = 0 THEN Len(s) + 1 - i ELSE stop - i

\* the occurrences of the tracked names in s, in any casing
TrackedAt(s) ==
    {occ \in (1..Len(SENSITIVE_COLUMNS)) \X (1..Len(s)) :
        NameAt(s, SENSITIVE_COLUMNS[occ[1]], occ[2])}

\* every tracked name of s has two or more quotes on each side, and there is one
AllWrappedInRuns(s) ==
    /\ TrackedAt(s) # {}
    /\ \A occ \in TrackedAt(s) :
           /\ QuotesBefore(s, occ[2]) >= 2
           /\ QuotesFrom(s, occ[2] + Len(SENSITIVE_COLUMNS[occ[1]])) >= 2

\* C23: when every tracked name of the input stands between runs of two or
\* more double quotes, every tracked name of the Normalizer's output has
\* exactly one double quote on each side, and none is lost.
C23_QuoteRunsCollapsed ==
    (step \in {"once", "twice"} /\ AllWrappedInRuns(raw)) =>
        /\ Cardinality(TrackedAt(normalized.once)) = Cardinality(TrackedAt(raw))
        /\ \A occ \in TrackedAt(normalized.once) :
               /\ QuotesBefore(normalized.once, occ[2]) = 1
               /\ QuotesFrom(normalized.once, occ[2] + Len(SENSITIVE_COLUMNS[occ[1]])) = 1

\* C24: in every state of the page, also with submissions that overlap,
\* queryState.columns is the key list of the first row of queryState.results,
\* and is empty when results is empty.
C24_ColumnsFollowResults ==
    queryState.columns = ColumnsOf(queryState.results)

\* rows are shown that an earlier submission fetched after a later one began
C24_Witness ==
    /\ Len(queryState.results) > 0
    /\ queryState.results[1].call < history.latest
    /\ queryState.columns = <<"category", "count">>

\* the forbidden keywords in the order the claim gives, and the patterns
KeywordOrder == <<sDrop, sDelete, sInsert, sUpdate, sTruncate, sAlter>>
Patterns == {sDashes, sOpenComment, sUnion, sExec, sXp, sWaitfor}

\* the first keyword of KeywordOrder that s contains
EarliestKeyword(s) ==
    KeywordOrder[CHOOSE k \in 1..Len(KeywordOrder) :
                     /\ ContainsNoCase(s, KeywordOrder[k])
                     /\ \A m \in 1..(k - 1) : ~ContainsNoCase(s, KeywordOrder[m])]

\* the rules that s breaks
RulesBroken(s) ==
    (IF BeginsWithSelect(s) THEN {} ELSE {"select"})
        \cup (IF ForbiddenIn(s) = {} THEN {} ELSE {"keyword"})
        \cup (IF \E w \in Patterns : ContainsNoCase(s, w) THEN {"pattern"} ELSE {})

\* C25: validateQuery of src/unnamed/part_002 reports the first rule that the
\* string breaks, in the order not-SELECT, forbidden keyword, suspicious
\* pattern; for a forbidden keyword it names the first one in the order drop,
\* delete, insert, update, truncate, alter; and it accepts exactly the strings
\* that break no rule.
C25_FirstFailingRuleWins ==
    (step = "validated" /\ version = "p002") =>
        /\ verdict.isValid <=> RulesBroken(raw) = {}
        /\ "select" \in RulesBroken(raw) => verdict.error = OnlySelect
        /\ ("select" \notin RulesBroken(raw) /\ "keyword" \in RulesBroken(raw))
               => verdict.error = ForbiddenKeyword(EarliestKeyword(raw))
        /\ RulesBroken(raw) = {"pattern"} => verdict.error = SuspiciousPatterns

\* a SELECT that holds update before drop: drop is the keyword reported
C25_Witness ==
    /\ step = "validated"
    /\ version = "p002"
    /\ RulesBroken(raw) = {"keyword"}
    /\ ForbiddenIn(raw) = {sDrop, sUpdate}
    /\ \E i \in 1..Len(raw) :
           /\ OccursAt(raw, sUpdate, i)
           /\ \A j \in 1..i : ~OccursAt(raw, sDrop, j)
    /\ verdict.error = ForbiddenKeyword(sDrop)

\* C26: when generateQuery returns a query, the string it handed to the
\* Validator is the normalized string that it returns.
C26_ValidatedStringIsReturned ==
    (step = "generated" /\ generated.kind = "query") =>
        /\ validated.given
        /\ validated.text = generated.text

\* C27: once an execution of the user's query, the first one or the retry
\* after the table was created, has outlasted the timeout, the call has failed
\* with the timeout error and no longer waits for the database.
C27_TimeoutBoundsEveryExecution ==
    \A c \in Callers :
        (timedOut[c] \/ retryOverdue[c]) =>
            /\ pc[c] = "Failed"
            /\ outcome[c] = QueryTimedOut

\* C28: whenever no request is in progress, the rows and the chart
\* configuration of queryState were fetched for the query in
\* queryState.active, that query is the one of the most recent submission,
\* and after a Clear queryState is empty.
C28_LateResponsesDiscarded ==
    Quiet =>
        /\ \A i \in DOMAIN queryState.results :
               <<queryState.results[i].call>> = queryState.active
        /\ queryState.chartConfig \in {<<>>, queryState.active}
        /\ queryState.active \in {<<>>, <<history.latest>>}
        /\ history.latest = 0 => queryState = EmptyQueryState

\* submission r awaits a server action
InFlight(r) == r \in DOMAIN pagePc /\ pagePc[r] \in Awaits

\* C29: every submission that awaits a server action comes to an end, the
\* step that ends it leaves loading.status false, and when it ends in failure
\* that step leaves input.submitted false.
C29_SubmitEndsAndReleasesInput ==
    /\ \A r \in 1..MaxCalls : InFlight(r) ~> (r \in DOMAIN pagePc /\ ~InFlight(r))
    /\ [][\A r \in 1..MaxCalls :
              (InFlight(r) /\ pagePc'[r] \notin Awaits) =>
                  /\ ~loading'.status
                  /\ pagePc'[r] = "failed" => ~input'.submitted]_vars

----------------------------------------------------------------------------
(* getPaginationParams, src/lib/seed.ts *)

\* the longest value of a query parameter
MaxParamLen == 3

ParamChars == {"0", "1", "-", " ", "a", "x"}

RECURSIVE ParamTexts(_)
ParamTexts(n) ==
    IF n = 0 THEN {<<>>}
    ELSE LET shorter == ParamTexts(n - 1)
         IN  shorter \cup {Append(t, ch) : t \in shorter, ch \in ParamChars}

\* searchParams.get(name): null, or the parameter's text
Param(text) == [present |-> TRUE, text |-> text]
ParamValues == {Absent} \cup {Param(t) : t \in ParamTexts(MaxParamLen)}
CategoryValues == {Absent, Param(<<>>), Param(<<"a">>)}

\* a JavaScript number: an integer, or NaN
NaN == [nan |-> TRUE, n |-> 0]
Num(n) == [nan |-> FALSE, n |-> n]

\* searchParams.get(name) || fallback: null and '' give the fallback
orElse(param, fallback) ==
    IF param.present /\ param.text # <<>> THEN param.text ELSE fallback

HexDigits == <<"0", "1", "2", "3", "4", "5", "6", "7", "8", "9",
               "a", "b", "c", "d", "e", "f">>
UpperHexDigits == <<"0", "1", "2", "3", "4", "5", "6", "7", "8", "9",
                    "A", "B", "C", "D", "E", "F">>

\* the value of ch as a digit of the radix, or -1
digit(ch, radix) ==
    Bind(First({k \in 1..radix : HexDigits[k] = ch \/ UpperHexDigits[k] = ch}),
         LAMBDA k : k - 1)

\* the value of the digits of s from position i up to the first character
\* that is no digit of the radix, continuing from acc
RECURSIVE digitsFrom(_, _, _, _)
digitsFrom(s, i, radix, acc) ==
    IF i > Len(s) \/ digit(s[i], radix) < 0 THEN acc
    ELSE digitsFrom(s, i + 1, radix, acc * radix + digit(s[i], radix))

\* parseInt(s) with no radix: leading white space, a sign, 0x or 0X for
\* radix 16, then as many digits as there are; NaN when there is none
parseInt(s) ==
    LET start == IF \A j \in 1..Len(s) : IsWhite(s[j]) THEN Len(s) + 1
                 ELSE First({j \in 1..Len(s) : ~IsWhite(s[j])})
        signed == start <= Len(s) /\ s[start] \in {"-", "+"}
        negative == signed /\ s[start] = "-"
        body == IF signed THEN start + 1 ELSE start
        hex == body + 1 <= Len(s) /\ s[body] = "0" /\ s[body + 1] \in {"x", "X"}
        radix == IF hex THEN 16 ELSE 10
        from == IF hex THEN body + 2 ELSE body
        value == digitsFrom(s, from, radix, 0)
    IN  IF from > Len(s) \/ digit(s[from], radix) < 0 THEN NaN
        ELSE Num(IF negative THEN 0 - value ELSE value)

\* Math.max and Math.min: NaN when an argument is NaN
MathMax(a, b) ==
    IF a.nan \/ b.nan THEN NaN ELSE Num(IF a.n >= b.n THEN a.n ELSE b.n)
MathMin(a, b) ==
    IF a.nan \/ b.nan THEN NaN ELSE Num(IF a.n <= b.n THEN a.n ELSE b.n)

Undefined == [defined |-> FALSE, text |-> <<>>]
Defined(text) == [defined |-> TRUE, text |-> text]

\* getPaginationParams, src/lib/seed.ts
getPaginationParams(params) ==
    [ kind |-> "params",
      page |-> MathMax(Num(1), parseInt(orElse(params.page, <<"1">>))),
      limit |-> MathMin(Num(100),
                        MathMax(Num(1), parseInt(orElse(params.limit, <<"1", "0">>)))),
      category |-> IF params.category.present /\ params.category.text # <<>>
                   THEN Defined(params.category.text) ELSE Undefined ]

PagingInit ==
    /\ version = "app"
    /\ ExecInit
    /\ PipeIdle
    /\ ChartIdle
    /\ PageIdle
    /\ searchParams \in [page : ParamValues, limit : ParamValues, category : CategoryValues]
    /\ pagination = NoPagination

RunGetPaginationParams ==
    /\ pagination = NoPagination
    /\ pagination' = getPaginationParams(searchParams)
    /\ UNCHANGED <<version, execVars, pipeVars, chartVars, pageVars, searchParams>>

PagingNext == RunGetPaginationParams

PagingSpec == PagingInit /\ [][PagingNext]_vars

\* C30: getPaginationParams returns a page that is an integer of at least 1
\* and a limit that is an integer from 1 to 100, whatever the 'page' and
\* 'limit' parameters are.
C30_PageAndLimitInRange ==
    pagination # NoPagination =>
        /\ ~pagination.page.nan
        /\ pagination.page.n >= 1
        /\ ~pagination.limit.nan
        /\ pagination.limit.n \in 1..100

=============================================================================
